---- MODULE Spec2Model ----
(***************************************************************************)
(* Cairo Weather Dashboard (src/WEATHER.py): the cached load with its      *)
(* derived calendar columns, the date-range filter and the grouped         *)
(* aggregates of one script run, as a state machine over the frames the    *)
(* script holds.                                                           *)
(***************************************************************************)
EXTENDS Integers, Sequences, FiniteSets, TLC

(***************************************************************************)
(* float64.  The numeric columns are float64 and the script compares a     *)
(* sum with a quotient (line 150), so sums and quotients round as IEEE-754 *)
(* binary64 does: 53 significant bits, round to nearest, ties to even.     *)
(* A finite value is sign and magnitude, the magnitude an integer count of *)
(* 2^-60 held in five 15-bit limbs, least significant first.  Every value  *)
(* the model computes is 0 or at least 2^-8 in magnitude and below 2^15,   *)
(* the range in which each binary64 value is such a count.                 *)
(***************************************************************************)
LimbBase == 2^15

Limbs == 1..5

MagZero == <<0, 0, 0, 0, 0>>

MagOfInt(k) == <<0, 0, 0, 0, k>>

MagOfSmall(x) == <<x % LimbBase, x \div LimbBase, 0, 0, 0>>

MagPow2(k) ==
    LET at(i) == IF i = (k \div 15) + 1 THEN 2^(k % 15) ELSE 0
    IN  <<at(1), at(2), at(3), at(4), at(5)>>

MagAdd(a, b) ==
    LET s1 == a[1] + b[1]
        s2 == a[2] + b[2] + (s1 \div LimbBase)
        s3 == a[3] + b[3] + (s2 \div LimbBase)
        s4 == a[4] + b[4] + (s3 \div LimbBase)
        s5 == a[5] + b[5] + (s4 \div LimbBase)
    IN  <<s1 % LimbBase, s2 % LimbBase, s3 % LimbBase, s4 % LimbBase, s5 % LimbBase>>

\* a - b for a >= b
MagSub(a, b) ==
    LET Borrow(d) == IF d < 0 THEN 1 ELSE 0
        d1 == a[1] - b[1]
        d2 == a[2] - b[2] - Borrow(d1)
        d3 == a[3] - b[3] - Borrow(d2)
        d4 == a[4] - b[4] - Borrow(d3)
        d5 == a[5] - b[5] - Borrow(d4)
    IN  <<d1 + Borrow(d1) * LimbBase, d2 + Borrow(d2) * LimbBase,
          d3 + Borrow(d3) * LimbBase, d4 + Borrow(d4) * LimbBase,
          d5 + Borrow(d5) * LimbBase>>

MagLess(a, b) ==
    \E i \in Limbs : a[i] < b[i] /\ \A j \in Limbs : j > i => a[j] = b[j]

BitLenSmall(x) == CHOOSE k \in 0..15 : x < 2^k /\ (k = 0 \/ 2^(k-1) <= x)

TopLimb(a) == CHOOSE i \in Limbs : a[i] # 0 /\ \A j \in Limbs : j > i => a[j] = 0

BitLen(a) == IF a = MagZero THEN 0 ELSE 15 * (TopLimb(a) - 1) + BitLenSmall(a[TopLimb(a)])

\* bit k of q
BitOf(q, k) == (q[(k \div 15) + 1] \div 2^(k % 15)) % 2

\* The binary64 nearest to the exact value q + r/n (0 <= r < n), ties to even:
\* q keeps its 53 leading bits; the k bits below them and r/n decide the
\* direction.
RoundTo(down, up, k) == IF up THEN MagAdd(down, MagPow2(k)) ELSE down

RoundsUp(q, k, twice, whole) == twice > whole \/ (twice = whole /\ BitOf(q, k) = 1)

RoundWithLow(q, r, n, k, low) ==
    RoundTo(MagSub(q, MagOfSmall(low)), RoundsUp(q, k, 2 * (low * n + r), n * 2^k), k)

RoundAtBit(q, r, n, k) == RoundWithLow(q, r, n, k, (q[1] + LimbBase * q[2]) % 2^k)

RoundingBit(len) == IF len > 53 THEN len - 53 ELSE 0

MagRound(q, r, n) == RoundAtBit(q, r, n, RoundingBit(BitLen(q)))

\* q \div n and q % n for a small positive n (long division, top limb first)
MagDivMod(q, n) ==
    LET c5 == q[5]
        c4 == (c5 % n) * LimbBase + q[4]
        c3 == (c4 % n) * LimbBase + q[3]
        c2 == (c3 % n) * LimbBase + q[2]
        c1 == (c2 % n) * LimbBase + q[1]
    IN  [quot |-> <<c1 \div n, c2 \div n, c3 \div n, c4 \div n, c5 \div n>>,
         rem  |-> c1 % n]

NaN == [nan |-> TRUE, neg |-> FALSE, m |-> MagZero]

isna(x) == x.nan

Float(neg, mag) == [nan |-> FALSE, neg |-> neg /\ mag # MagZero, m |-> mag]

FloatOfInt(k) == Float(FALSE, MagOfInt(k))

fneg(x) == IF x.nan THEN x ELSE Float(~x.neg, x.m)

\* x + y
fadd(x, y) ==
    IF x.nan \/ y.nan THEN NaN
    ELSE IF x.neg = y.neg THEN Float(x.neg, MagRound(MagAdd(x.m, y.m), 0, 1))
    ELSE IF MagLess(x.m, y.m) THEN Float(y.neg, MagRound(MagSub(y.m, x.m), 0, 1))
    ELSE Float(x.neg, MagRound(MagSub(x.m, y.m), 0, 1))

\* x - y
fsub(x, y) == fadd(x, fneg(y))

\* x / n for a positive count n
Quotient(neg, d, n) == Float(neg, MagRound(d.quot, d.rem, n))

fdiv(x, n) == IF x.nan THEN NaN ELSE Quotient(x.neg, MagDivMod(x.m, n), n)

\* x > y (False when either is NaN)
fgt(x, y) ==
    /\ ~x.nan /\ ~y.nan
    /\ IF x.neg # y.neg THEN y.neg
       ELSE IF x.neg THEN MagLess(x.m, y.m) ELSE MagLess(y.m, x.m)

(***************************************************************************)
(* Kahan-compensated group sum and the pairwise array sum: the two         *)
(* summation loops behind groupby(...).sum()/.mean() and Series.mean().    *)
(***************************************************************************)
Zero == FloatOfInt(0)

\* one step of the compensated loop of groupby sum/mean; a NaN is skipped:
\*   y = val - comp; t = sumx + y; comp = t - sumx - y; sumx = t
KahanT(acc, y, t) ==
    [sumx |-> t, comp |-> fsub(fsub(t, acc.sumx), y), nobs |-> acc.nobs + 1]

KahanY(acc, y) == KahanT(acc, y, fadd(acc.sumx, y))

KahanStep(acc, val) == IF isna(val) THEN acc ELSE KahanY(acc, fsub(val, acc.comp))

RECURSIVE KahanLoop(_, _)
KahanLoop(acc, vals) ==
    IF vals = <<>> THEN acc ELSE KahanLoop(KahanStep(acc, Head(vals)), Tail(vals))

KahanAcc(vals) == KahanLoop([sumx |-> Zero, comp |-> Zero, nobs |-> 0], vals)

\* groupby(...)[col].sum() of one group: 0 for a group without observations
group_sum(vals) == KahanAcc(vals).sumx

\* groupby(...)[col].mean() of one group: NaN for a group without observations
MeanOf(acc) == IF acc.nobs = 0 THEN NaN ELSE fdiv(acc.sumx, acc.nobs)

group_mean(vals) == MeanOf(KahanAcc(vals))

RECURSIVE SumFrom(_, _, _)
SumFrom(res, a, i) == IF i > Len(a) THEN res ELSE SumFrom(fadd(res, a[i]), a, i + 1)

\* ndarray.sum() of a 1-d float64 array of fewer than 16 elements: a plain
\* left-to-right loop below 8 elements, eight running lanes combined as a tree
\* and the rest added in order from 8 elements on
pairwise_sum(a) ==
    IF Len(a) < 8 THEN SumFrom(Zero, a, 1)
    ELSE SumFrom(fadd(fadd(fadd(a[1], a[2]), fadd(a[3], a[4])),
                      fadd(fadd(a[5], a[6]), fadd(a[7], a[8]))), a, 9)

\* Series.mean() of a series without NaN: NaN when empty
nanmean(a) == IF Len(a) = 0 THEN NaN ELSE fdiv(pairwise_sum(a), Len(a))

(***************************************************************************)
(* Calendar.  A timestamp is the number of hours since 2021-01-01 00:00    *)
(* (a Friday); all timestamps of the model lie in 2021.                    *)
(***************************************************************************)
NaT == -(2^30)

DaysBefore == <<0, 31, 59, 90, 120, 151, 181, 212, 243, 273, 304, 334, 365>>

\* Series.dt.date: the calendar date, as days since 2021-01-01
dt_date(t) == t \div 24

\* Series.dt.hour
dt_hour(t) == t % 24

\* Series.dt.month
dt_month(t) ==
    CHOOSE m \in 1..12 : DaysBefore[m] <= dt_date(t) /\ dt_date(t) < DaysBefore[m + 1]

\* Series.dt.year
dt_year(t) == 2021 + (dt_date(t) \div 365)

\* Series.dt.dayofweek: Monday is 0
dt_dayofweek(t) == (dt_date(t) + 4) % 7

days_order == <<"Monday", "Tuesday", "Wednesday", "Thursday", "Friday", "Saturday",
                "Sunday">>

months_order == <<"January", "February", "March", "April", "May", "June", "July",
                  "August", "September", "October", "November", "December">>

\* Series.dt.day_name()
dt_day_name(t) == days_order[dt_dayofweek(t) + 1]

\* Series.dt.month_name()
dt_month_name(t) == months_order[dt_month(t)]

\* the label orders a sorted group key comes out in: integers ascending, names
\* in lexicographic string order
HoursSorted == [h \in 1..24 |-> h - 1]

DayNamesSorted == <<"Friday", "Monday", "Saturday", "Sunday", "Thursday", "Tuesday",
                    "Wednesday">>

MonthNamesSorted == <<"April", "August", "December", "February", "January", "July",
                      "June", "March", "May", "November", "October", "September">>

MonthsSorted == [m \in 1..12 |-> m]

Range(f) == {f[i] : i \in DOMAIN f}

\* the members of S in the order of the sequence `order`
OrderedBy(S, order) == SelectSeq(order, LAMBDA x : x \in S)

\* the members of S in the order they first appear in the sequence `seq`
RECURSIVE FirstAppearance(_)
FirstAppearance(seq) ==
    IF seq = <<>> THEN <<>>
    ELSE LET init == FirstAppearance(SubSeq(seq, 1, Len(seq) - 1))
             last == seq[Len(seq)]
         IN  IF last \in Range(init) THEN init ELSE Append(init, last)

(***************************************************************************)
(* Columns of the input file.  The degree sign of the temperature column   *)
(* name is left out of the model's string.                                 *)
(***************************************************************************)
TEMP == "temperature_2m_mean_C"
HUM == "relative_humidity_2m_mean_%"
WIND == "wind_speed_10m_mean_km/h"
RAIN == "rain_sum_mm"
SUNRISE == "sunrise_iso8601"
SUNSET == "sunset_iso8601"

NumericColumns == {TEMP, HUM, WIND, RAIN}

OptionalColumns == NumericColumns \cup {SUNRISE, SUNSET}

CsvColumns == {"time"} \cup OptionalColumns

\* options of the metric selectbox
MetricOptions == <<TEMP, HUM, WIND, RAIN>>

(***************************************************************************)
(* Frames.  A frame is its set of column labels, its index labels and its  *)
(* rows in order, each row a function of the column labels.                *)
(***************************************************************************)
Column(frame, c) == [i \in DOMAIN frame.rows |-> frame.rows[i][c]]

\* frame[c] = values, for a new or an existing column c
SetColumn(frame, c, values) ==
    [columns |-> frame.columns \cup {c},
     index   |-> frame.index,
     rows    |-> [i \in DOMAIN frame.rows |->
                    [k \in frame.columns \cup {c} |->
                        IF k = c THEN values[i] ELSE frame.rows[i][k]]]]

\* frame[mask], a new frame holding the rows where mask is true
Positions(mask) == SelectSeq([i \in DOMAIN mask |-> i], LAMBDA i : mask[i])

BooleanIndex(frame, mask) ==
    LET pos == Positions(mask)
    IN  [columns |-> frame.columns,
         index   |-> [j \in DOMAIN pos |-> frame.index[pos[j]]],
         rows    |-> [j \in DOMAIN pos |-> frame.rows[pos[j]]]]

\* the values of column c in the rows whose column key holds k, in row order
GroupValues(frame, key, k, c) ==
    LET pos == SelectSeq([i \in DOMAIN frame.rows |-> i],
                         LAMBDA i : frame.rows[i][key] = k)
    IN  [j \in DOMAIN pos |-> frame.rows[pos[j]][c]]

\* groupby(key, sort=False): the keys in the order they first appear
GroupKeysUnsorted(frame, key, sorted) == FirstAppearance(Column(frame, key))

\* the group keys of frame.groupby(key), sorted
GroupKeys(frame, key, sorted) == OrderedBy(Range(Column(frame, key)), sorted)

\* frame.groupby(key)[c].sum(): a series over the sorted distinct keys
groupby_sum(frame, key, sorted, c) ==
    LET keys == GroupKeys(frame, key, sorted)
    IN  [index  |-> keys,
         values |-> [j \in DOMAIN keys |-> group_sum(GroupValues(frame, key, keys[j], c))]]

\* frame.groupby(key)[c].mean(): a series over the sorted distinct keys
groupby_mean(frame, key, sorted, c) ==
    LET keys == GroupKeys(frame, key, sorted)
    IN  [index  |-> keys,
         values |-> [j \in DOMAIN keys |-> group_mean(GroupValues(frame, key, keys[j], c))]]

\* series[series > bound].index
IndexWhereGreater(series, bound) ==
    LET pos == SelectSeq([j \in DOMAIN series.values |-> j],
                         LAMBDA j : fgt(series.values[j], bound))
    IN  [j \in DOMAIN pos |-> series.index[pos[j]]]

\* frame.pivot_table(index=rowKey, columns=colKey, values=c, aggfunc='mean'):
\* the mean of every (rowKey, colKey) group, the groups whose mean is NaN
\* dropped, the remaining row and column labels sorted, NaN where a pair of
\* remaining labels has no group
PairValues(frame, rowKey, colKey, p, c) ==
    LET pos == SelectSeq([i \in DOMAIN frame.rows |-> i],
                         LAMBDA i : /\ frame.rows[i][rowKey] = p[1]
                                    /\ frame.rows[i][colKey] = p[2])
    IN  [j \in DOMAIN pos |-> frame.rows[pos[j]][c]]

PairMeans(frame, rowKey, colKey, c) ==
    [p \in {<<frame.rows[i][rowKey], frame.rows[i][colKey]>> : i \in DOMAIN frame.rows} |->
        group_mean(PairValues(frame, rowKey, colKey, p, c))]

Table(agged, kept, rows, cols) ==
    [index   |-> rows,
     columns |-> cols,
     cell    |-> [p \in Range(rows) \X Range(cols) |->
                    IF p \in kept THEN agged[p] ELSE NaN]]

UnstackKept(agged, kept, rowSorted, colSorted) ==
    Table(agged, kept, OrderedBy({p[1] : p \in kept}, rowSorted),
          OrderedBy({p[2] : p \in kept}, colSorted))

Unstack(agged, rowSorted, colSorted) ==
    UnstackKept(agged, {p \in DOMAIN agged : ~isna(agged[p])}, rowSorted, colSorted)

pivot_table(frame, rowKey, rowSorted, colKey, colSorted, c) ==
    Unstack(PairMeans(frame, rowKey, colKey, c), rowSorted, colSorted)

\* table[labels]: the columns in the order of `labels`; every label must be a
\* column of the table
HasColumns(table, labels) == \A j \in DOMAIN labels : labels[j] \in Range(table.columns)

SelectColumns(table, labels) == [table EXCEPT !.columns = labels]

(***************************************************************************)
(* The input file: a header and rows of cells.  A numeric cell is empty or *)
(* a decimal with one fractional digit, held as its count of tenths; a     *)
(* timestamp cell is an hour count or empty (NaT).                         *)
(***************************************************************************)
Blank == [empty |-> TRUE, tenths |-> 0]

Cell(t) == [empty |-> FALSE, tenths |-> t]

\* the float64 a numeric cell parses to
ParseFloat(cell) == IF cell.empty THEN NaN ELSE fdiv(FloatOfInt(cell.tenths), 10)

CsvRow(t, temp, rain, sun) ==
    [c \in CsvColumns |->
        IF c = "time" THEN t
        ELSE IF c = TEMP THEN temp
        ELSE IF c = HUM THEN Cell(500)
        ELSE IF c = WIND THEN Cell(100)
        ELSE IF c = RAIN THEN rain
        ELSE IF c = SUNRISE THEN (IF sun THEN t - dt_hour(t) + 6 ELSE NaT)
        ELSE (IF sun THEN t - dt_hour(t) + 18 ELSE NaT)]

Csv(columns, rows) ==
    [columns |-> columns,
     rows    |-> [i \in DOMAIN rows |-> [c \in columns |-> rows[i][c]]]]

\* the header without column c
WithoutColumn(csv, c) == Csv(csv.columns \ {c}, csv.rows)

\* column c empty in every row
WithEmptyColumn(csv, c) ==
    [columns |-> csv.columns,
     rows    |-> [i \in DOMAIN csv.rows |->
                    [k \in csv.columns |->
                        IF k # c THEN csv.rows[i][k]
                        ELSE IF c \in NumericColumns THEN Blank ELSE NaT]]]

MaxRows == 2

\* 2021-01-31 00:00 (a Sunday), 2021-02-01 12:00, 2021-02-03 00:00
ShortTimes == {30 * 24, 31 * 24 + 12, 33 * 24}

ShortRain == {Blank, Cell(1)}

ShortRows == {CsvRow(t, Cell(200), r, TRUE) : t \in ShortTimes, r \in ShortRain}

\* every file of 1..MaxRows rows, in any order of the timestamps
ShortCsvs ==
    UNION {{Csv(CsvColumns, rows) : rows \in [1..n -> ShortRows]} : n \in 1..MaxRows}

\* one row on the first day of each month of 2021, the months in the order
\* given; the seven day names all occur among these twelve days
YearCsv(order, temp, rain) ==
    Csv(CsvColumns,
        [j \in 1..12 |-> CsvRow(DaysBefore[order[j]] * 24, temp[order[j]],
                                rain[order[j]], TRUE)])

Ascending == [j \in 1..12 |-> j]

Descending == [j \in 1..12 |-> 13 - j]

TempFull == [m \in 1..12 |-> Cell(200 + 5 * m)]

\* no temperature on 2021-05-01, the only Saturday of the twelve
TempGap == [m \in 1..12 |-> IF m = 5 THEN Blank ELSE Cell(200)]

RainEqualTenth == [m \in 1..12 |-> Cell(1)]

RainEqualTen == [m \in 1..12 |-> Cell(100)]

RainAlternating == [m \in 1..12 |-> IF m % 2 = 1 THEN Cell(50) ELSE Cell(150)]

RainSummerEmpty == [m \in 1..12 |-> IF m \in 6..8 THEN Blank ELSE Cell(3 * m)]

YearCsvs ==
    {YearCsv(Ascending, TempFull, RainEqualTenth),
     YearCsv(Descending, TempFull, RainAlternating),
     YearCsv(Ascending, TempFull, RainEqualTen),
     YearCsv(Descending, TempGap, RainSummerEmpty)}

\* files in which one optional column is absent from the header, or present
\* and empty in every row
SparseBase ==
    Csv(CsvColumns, <<CsvRow(30 * 24, Cell(200), Cell(1), TRUE),
                      CsvRow(33 * 24, Cell(215), Cell(0), TRUE)>>)

SparseCsvs ==
    {WithoutColumn(SparseBase, c) : c \in OptionalColumns}
        \cup {WithEmptyColumn(SparseBase, c) : c \in OptionalColumns}

InputCsvs == ShortCsvs \cup YearCsvs \cup SparseCsvs

\* the dates the date picker is tried with
PickerDates == {dt_date(t) : t \in ShortTimes} \cup {32} \cup {DaysBefore[m] : m \in 1..12}

(***************************************************************************)
(* load_data                                                               *)
(***************************************************************************)
\* pd.read_csv: numeric cells parsed, a fresh 0..n-1 index
read_csv(csv) ==
    [columns |-> csv.columns,
     index   |-> [i \in DOMAIN csv.rows |-> i - 1],
     rows    |-> [i \in DOMAIN csv.rows |->
                    [c \in csv.columns |->
                        IF c \in NumericColumns THEN ParseFloat(csv.rows[i][c])
                        ELSE csv.rows[i][c]]]]

CellIsNa(c, v) == IF c \in NumericColumns THEN isna(v) ELSE v = NaT

\* frame.dropna(axis=1, how='all')
dropna_columns(frame) ==
    LET keep == {c \in frame.columns :
                    \E i \in DOMAIN frame.rows : ~CellIsNa(c, frame.rows[i][c])}
    IN  [columns |-> keep,
         index   |-> frame.index,
         rows    |-> [i \in DOMAIN frame.rows |-> [c \in keep |-> frame.rows[i][c]]]]

\* December left out of the first test
get_season_no_december(month) ==
    IF month \in {1, 2} THEN "Winter"
    ELSE IF month \in {3, 4, 5} THEN "Spring"
    ELSE IF month \in {6, 7, 8} THEN "Summer"
    ELSE "Autumn"

get_season(month) ==
    IF month \in {12, 1, 2} THEN "Winter"
    ELSE IF month \in {3, 4, 5} THEN "Spring"
    ELSE IF month \in {6, 7, 8} THEN "Summer"
    ELSE "Autumn"

\* frame[new] = frame[from].<accessor or apply>, one definition per line of the code
Derived(frame, from, values) == [i \in DOMAIN frame.rows |-> values[frame.rows[i][from]]]

TimesOf(frame) == Range(Column(frame, "time"))

\* line 20
add_month(frame) ==
    SetColumn(frame, "month", Derived(frame, "time", [t \in TimesOf(frame) |-> dt_month(t)]))

\* line 21
add_year(frame) ==
    SetColumn(frame, "year", Derived(frame, "time", [t \in TimesOf(frame) |-> dt_year(t)]))

\* line 22
add_day_of_week(frame) ==
    SetColumn(frame, "day_of_week",
              Derived(frame, "time", [t \in TimesOf(frame) |-> dt_dayofweek(t)]))

\* line 23
add_date(frame) ==
    SetColumn(frame, "date", Derived(frame, "time", [t \in TimesOf(frame) |-> dt_date(t)]))

\* line 31
add_season(frame) ==
    SetColumn(frame, "season",
              Derived(frame, "month", [m \in Range(Column(frame, "month")) |-> get_season(m)]))

\* line 203
add_hour(frame) ==
    SetColumn(frame, "hour", Derived(frame, "time", [t \in TimesOf(frame) |-> dt_hour(t)]))

\* line 204
add_day_name(frame) ==
    SetColumn(frame, "day_of_week",
              Derived(frame, "time", [t \in TimesOf(frame) |-> dt_day_name(t)]))

\* line 205
add_month_name(frame) ==
    SetColumn(frame, "month_name",
              Derived(frame, "time", [t \in TimesOf(frame) |-> dt_month_name(t)]))

\* lines 9-33; the timestamp cells of the file are hour counts already, so
\* pd.to_datetime (lines 13-17) leaves them as they are
load_data(file) ==
    add_season(add_date(add_day_of_week(add_year(add_month(dropna_columns(read_csv(file)))))))

(***************************************************************************)
(* The script.  Streamlit runs it top to bottom, and again from the top on *)
(* every interaction; load_data is memoised with st.cache_data, which      *)
(* hands every run its own copy of the cached frame.                       *)
(***************************************************************************)
VARIABLES
    csv,              \* the input file
    cache,            \* the frame st.cache_data holds for load_data
    heap,             \* the frame objects of the run, by object id
    df,               \* the object the name df is bound to
    df_filtered,      \* the object the name df_filtered is bound to
    date_range,       \* the date picker's value: one or two dates
    selected_metric,  \* the selectbox's value
    monthly_avg, monthly_rain, wet_months, humidity_avg, monthly_rainfall,
    heatmap_data,
    pc,               \* the step the run is about to take
    error             \* the exception that ended the run, if any

vars == <<csv, cache, heap, df, df_filtered, date_range, selected_metric, monthly_avg,
          monthly_rain, wet_months, humidity_avg, monthly_rainfall, heatmap_data, pc,
          error>>

widgets == <<date_range, selected_metric>>

aggregates == <<monthly_avg, monthly_rain, wet_months, humidity_avg, monthly_rainfall,
                heatmap_data>>

NoFrame == [columns |-> {}, index |-> <<>>, rows |-> <<>>]

NoSeries == [index |-> <<>>, values |-> <<>>]

NoTable == [index |-> <<>>, columns |-> <<>>, cell |-> <<>>]

NoError == [exc |-> "none", at |-> "none"]

KeyError(step) == [exc |-> "KeyError", at |-> step]

\* line 35, df = load_data(): a copy of the cached frame under the name df
FreshHeap == [o \in {"loaded", "view"} |-> IF o = "loaded" THEN cache ELSE NoFrame]

Init ==
    /\ csv \in InputCsvs
    /\ cache = load_data(csv)
    /\ heap = FreshHeap
    /\ df = "loaded"
    /\ df_filtered = "none"
    /\ date_range = <<>>
    /\ selected_metric = MetricOptions[1]
    /\ monthly_avg = NoSeries
    /\ monthly_rain = NoSeries
    /\ wet_months = <<>>
    /\ humidity_avg = NoSeries
    /\ monthly_rainfall = NoSeries
    /\ heatmap_data = NoTable
    /\ pc = "widgets"
    /\ error = NoError

SetMin(S) == CHOOSE x \in S : \A y \in S : x <= y

SetMax(S) == CHOOSE x \in S : \A y \in S : y <= x

\* the values st.date_input can return between min_value and max_value: a
\* pair start <= end, or the start alone while the end is not yet picked
DateInputValues(frame) ==
    LET dates == {dt_date(t) : t \in Range(Column(frame, "time"))}
        pick  == {d \in PickerDates : SetMin(dates) <= d /\ d <= SetMax(dates)}
    IN  {<<s>> : s \in pick} \cup {r \in pick \X pick : r[1] <= r[2]}

\* lines 49-65: the sidebar widgets
Widgets ==
    /\ pc = "widgets"
    /\ date_range' \in DateInputValues(heap[df])
    /\ selected_metric' \in Range(MetricOptions)
    /\ pc' = "filter"
    /\ UNCHANGED <<csv, cache, heap, df, df_filtered, aggregates, error>>

\* the end date excluded: (df['date'] >= start) & (df['date'] < end)
RangeMaskOpenEnd(frame, start, end) ==
    [i \in DOMAIN frame.rows |-> frame.rows[i]["date"] >= start /\ frame.rows[i]["date"] < end]

\* (df['date'] >= start) & (df['date'] <= end)
RangeMask(frame, start, end) ==
    [i \in DOMAIN frame.rows |-> frame.rows[i]["date"] >= start /\ frame.rows[i]["date"] <= end]

\* df_filtered = df: no copy, the same object under a second name
same_object(obj) == obj

\* the object df.copy() returns: a new one
copy(obj) == "view"

\* lines 67-71
FilterData ==
    /\ pc = "filter"
    /\ IF Len(date_range) = 2
       THEN /\ heap' = [heap EXCEPT !["view"] =
                            BooleanIndex(heap[df], RangeMask(heap[df], date_range[1], date_range[2]))]
            /\ df_filtered' = "view"
       ELSE /\ heap' = [heap EXCEPT ![copy(df)] = heap[df]]
            /\ df_filtered' = copy(df)
    /\ pc' = "metrics"
    /\ UNCHANGED <<csv, cache, df, widgets, aggregates, error>>

\* frame[c] for every c of `columns`: the first one that is no column raises
Raises(frame, columns) == ~(columns \subseteq frame.columns)

\* lines 76-83: the four key metrics read temperature, humidity and rainfall
KeyMetrics ==
    /\ pc = "metrics"
    /\ IF Raises(heap[df_filtered], {TEMP, HUM, RAIN})
       THEN pc' = "error" /\ error' = KeyError("metrics")
       ELSE pc' = "recent" /\ error' = error
    /\ UNCHANGED <<csv, cache, heap, df, df_filtered, widgets, aggregates>>

\* lines 87-89: the table of the last five rows
RecentConditions ==
    /\ pc = "recent"
    /\ IF Raises(heap[df_filtered], {"time", TEMP, HUM, WIND, RAIN})
       THEN pc' = "error" /\ error' = KeyError("recent")
       ELSE pc' = "monthly_avg" /\ error' = error
    /\ UNCHANGED <<csv, cache, heap, df, df_filtered, widgets, aggregates>>

\* lines 107-141: season counts, the monthly average of the selected metric
MonthlyAverage ==
    /\ pc = "monthly_avg"
    /\ IF Raises(heap[df_filtered], {"season", "month", selected_metric})
       THEN pc' = "error" /\ error' = KeyError("monthly_avg") /\ monthly_avg' = monthly_avg
       ELSE /\ monthly_avg' = groupby_mean(heap[df_filtered], "month", MonthsSorted,
                                           selected_metric)
            /\ pc' = "wetdry"
            /\ error' = error
    /\ UNCHANGED <<csv, cache, heap, df, df_filtered, widgets, monthly_rain, wet_months,
                   humidity_avg, monthly_rainfall, heatmap_data>>

\* lambda x: 'Wet' if x in wet_months else 'Dry'
MonthType(wet, x) == IF x \in Range(wet) THEN "Wet" ELSE "Dry"

\* lines 149-153
WetDry ==
    /\ pc = "wetdry"
    /\ monthly_rain' = groupby_sum(heap[df_filtered], "month", MonthsSorted, RAIN)
    /\ wet_months' = IndexWhereGreater(monthly_rain', nanmean(monthly_rain'.values))
    /\ heap' = [heap EXCEPT ![df_filtered] =
                    SetColumn(@, "MonthType",
                              [i \in DOMAIN @.rows |-> MonthType(wet_months', @.rows[i]["month"])])]
    /\ humidity_avg' = groupby_mean(heap'[df_filtered], "MonthType", <<"Dry", "Wet">>, HUM)
    /\ pc' = "rainfall"
    /\ UNCHANGED <<csv, cache, df, df_filtered, widgets, monthly_avg, monthly_rainfall,
                   heatmap_data, error>>

\* lines 166-195: the monthly rainfall totals; the two season charts read df
MonthlyRainfall ==
    /\ pc = "rainfall"
    /\ monthly_rainfall' = groupby_sum(heap[df_filtered], "month", MonthsSorted, RAIN)
    /\ IF Raises(heap[df], {"season", WIND, TEMP})
       THEN pc' = "error" /\ error' = KeyError("rainfall")
       ELSE pc' = "features" /\ error' = error
    /\ UNCHANGED <<csv, cache, heap, df, df_filtered, widgets, monthly_avg, monthly_rain,
                   wet_months, humidity_avg, heatmap_data>>

\* lines 203-205
TimeFeatures ==
    /\ pc = "features"
    /\ heap' = [heap EXCEPT ![df_filtered] =
                    add_month_name(add_day_name(add_hour(@)))]
    /\ pc' = "tab1"
    /\ UNCHANGED <<csv, cache, df, df_filtered, widgets, aggregates, error>>

\* heatmap_data = <pivot table>; heatmap_data = heatmap_data[order]
Heatmap(table, order, step, next) ==
    IF HasColumns(table, order)
    THEN /\ heatmap_data' = SelectColumns(table, order)
         /\ pc' = next
         /\ error' = error
    ELSE /\ heatmap_data' = table
         /\ pc' = "error"
         /\ error' = KeyError(step)

\* lines 212-221: mean temperature by hour and day name, the columns put in
\* days_order
TabHourOfDay ==
    /\ pc = "tab1"
    /\ Heatmap(pivot_table(heap[df_filtered], "hour", HoursSorted,
                           "day_of_week", DayNamesSorted, TEMP),
               days_order, "tab1", "tab2")
    /\ UNCHANGED <<csv, cache, heap, df, df_filtered, widgets, monthly_avg, monthly_rain,
                   wet_months, humidity_avg, monthly_rainfall>>

\* lines 234-244: mean temperature by day name and month name, the columns put
\* in months_order
TabDayOfWeek ==
    /\ pc = "tab2"
    /\ Heatmap(pivot_table(heap[df_filtered], "day_of_week", DayNamesSorted,
                           "month_name", MonthNamesSorted, TEMP),
               months_order, "tab2", "done")
    /\ UNCHANGED <<csv, cache, heap, df, df_filtered, widgets, monthly_avg, monthly_rain,
                   wet_months, humidity_avg, monthly_rainfall>>

\* an interaction: the script starts over with fresh names; line 35 binds df
\* to a copy of the cached frame
Rerun ==
    /\ pc \in {"done", "error"}
    /\ heap' = FreshHeap
    /\ df' = "loaded"
    /\ df_filtered' = "none"
    /\ date_range' = <<>>
    /\ selected_metric' = MetricOptions[1]
    /\ monthly_avg' = NoSeries
    /\ monthly_rain' = NoSeries
    /\ wet_months' = <<>>
    /\ humidity_avg' = NoSeries
    /\ monthly_rainfall' = NoSeries
    /\ heatmap_data' = NoTable
    /\ pc' = "widgets"
    /\ error' = NoError
    /\ UNCHANGED <<csv, cache>>

Next ==
    \/ Widgets
    \/ FilterData
    \/ KeyMetrics
    \/ RecentConditions
    \/ MonthlyAverage
    \/ WetDry
    \/ MonthlyRainfall
    \/ TimeFeatures
    \/ TabHourOfDay
    \/ TabDayOfWeek
    \/ Rerun

Spec == Init /\ [][Next]_vars

(***************************************************************************)
(* Properties                                                              *)
(***************************************************************************)
Loaded == heap[df]

Filtered == heap[df_filtered]

StepOrder == <<"widgets", "filter", "metrics", "recent", "monthly_avg", "wetdry",
               "rainfall", "features", "tab1", "tab2", "done">>

StepIndex(step) == CHOOSE i \in DOMAIN StepOrder : StepOrder[i] = step

\* the step the run is at, or the one it failed in
Position == StepIndex(IF pc = "error" THEN error.at ELSE pc)

\* the step has run to its end in this run
Past(step) == Position > StepIndex(step)

\* the step has run in this run, to its end or into an exception
Tried(step) == Past(step) \/ (pc = "error" /\ error.at = step)

InRange(date) == date_range[1] <= date /\ date <= date_range[2]

\* rows j of the view and i of the full table agree on the columns cs
SameRow(view, j, full, i, cs) == \A c \in cs : view.rows[j][c] = full.rows[i][c]

\* the columns the run leaves as the filter copied them
CopiedColumns == IF "hour" \in Filtered.columns THEN Loaded.columns \ {"day_of_week"}
                 ELSE Loaded.columns

\* C1: with two bounds the filtered view holds exactly the rows of the full
\* table whose date d has start <= d <= end, each once and as it is in the full
\* table; with any other number of bounds it holds every row of the full table.
C1_DateRangeFilter ==
    Past("filter") =>
        /\ \A j \in DOMAIN Filtered.rows :
              \E i \in DOMAIN Loaded.rows :
                  /\ Loaded.index[i] = Filtered.index[j]
                  /\ SameRow(Filtered, j, Loaded, i, CopiedColumns)
        /\ \A j, k \in DOMAIN Filtered.rows : j < k => Filtered.index[j] < Filtered.index[k]
        /\ Range(Filtered.index) =
              IF Len(date_range) = 2
              THEN {Loaded.index[i] : i \in {n \in DOMAIN Loaded.rows :
                                                InRange(dt_date(Loaded.rows[n]["time"]))}}
              ELSE Range(Loaded.index)

\* a two-bound selection that keeps a row stamped at noon of the end date and
\* leaves another row out
C1_Witness ==
    /\ Past("filter")
    /\ Len(date_range) = 2
    /\ Len(Filtered.rows) < Len(Loaded.rows)
    /\ \E j \in DOMAIN Filtered.rows :
          /\ dt_date(Filtered.rows[j]["time"]) = date_range[2]
          /\ dt_hour(Filtered.rows[j]["time"]) = 12

\* the rainfall of row i of the filtered view as the file gives it, in tenths
\* of a millimetre; an empty cell adds nothing
RainTenths(i) ==
    IF csv.rows[Filtered.index[i] + 1][RAIN].empty THEN 0
    ELSE csv.rows[Filtered.index[i] + 1][RAIN].tenths

RECURSIVE SumOver(_, _)
SumOver(S, f) ==
    IF S = {} THEN 0 ELSE LET x == CHOOSE y \in S : TRUE IN f[x] + SumOver(S \ {x}, f)

FilteredMonths == {dt_month(Filtered.rows[i]["time"]) : i \in DOMAIN Filtered.rows}

\* the rainfall total of month m in the filtered set, in tenths
MonthTotal(m) ==
    SumOver({i \in DOMAIN Filtered.rows : dt_month(Filtered.rows[i]["time"]) = m},
            [i \in DOMAIN Filtered.rows |-> RainTenths(i)])

\* total > mean of the totals, as n * total > sum of the n totals
AboveMeanTotal(m) ==
    Cardinality(FilteredMonths) * MonthTotal(m) >
        SumOver(FilteredMonths, [k \in FilteredMonths |-> MonthTotal(k)])

\* C2: a month is labelled Wet if and only if its rainfall total in the
\* filtered set is strictly greater than the mean of the monthly totals of the
\* set, and Dry otherwise; when the totals are all equal every month is Dry.
C2_WetDryClassification ==
    Past("wetdry") =>
        /\ \A i \in DOMAIN Filtered.rows :
              Filtered.rows[i]["MonthType"] =
                  IF AboveMeanTotal(dt_month(Filtered.rows[i]["time"])) THEN "Wet" ELSE "Dry"
        /\ (\A m, n \in FilteredMonths : MonthTotal(m) = MonthTotal(n)) =>
              \A i \in DOMAIN Filtered.rows : Filtered.rows[i]["MonthType"] = "Dry"

ObservedDays == {dt_day_name(Filtered.rows[i]["time"]) : i \in DOMAIN Filtered.rows}

ObservedMonths == {dt_month_name(Filtered.rows[i]["time"]) : i \in DOMAIN Filtered.rows}

Labels(table) == Range(table.index) \cup Range(table.columns)

\* C3: when a day name or month name of the template has no row in the
\* filtered set, both pivots are still produced and carry every template day
\* (and, the second, every template month), the unobserved ones as NaN cells.
C3_PivotUnobservedKeys ==
    /\ (Tried("tab1") /\ ObservedDays # Range(days_order)) =>
          /\ Past("tab1")
          /\ Position = StepIndex("tab2") =>
                /\ heatmap_data.columns = days_order
                /\ \A p \in DOMAIN heatmap_data.cell :
                      p[2] \notin ObservedDays => isna(heatmap_data.cell[p])
    /\ (Tried("tab2") /\ ObservedMonths # Range(months_order)) =>
          /\ Past("tab2")
          /\ Range(months_order) \subseteq Labels(heatmap_data)

\* C4: the day-name axis of both pivots is in Monday-first order and the
\* month-name axis in January-first order, on whichever axis the key lies.
C4_PivotOrdering ==
    /\ (pc = "tab2") => heatmap_data.columns = OrderedBy(Range(heatmap_data.columns), days_order)
    /\ (pc = "done") =>
          /\ heatmap_data.columns = OrderedBy(Range(heatmap_data.columns), months_order)
          /\ heatmap_data.index = OrderedBy(Range(heatmap_data.index), days_order)

\* C5: when a two-bound range excludes every row (of a table that has every
\* column), every aggregate of the run is empty and no step of the run ends in
\* an exception.
C5_EmptyFilteredResult ==
    (/\ Past("filter") /\ Len(date_range) = 2 /\ Len(Filtered.rows) = 0
     /\ OptionalColumns \subseteq Loaded.columns) =>
        /\ pc # "error"
        /\ Past("monthly_avg") => monthly_avg.index = <<>>
        /\ Past("wetdry") => (monthly_rain.index = <<>> /\ wet_months = <<>>)
        /\ Past("rainfall") => monthly_rainfall.index = <<>>
        /\ Past("tab1") => heatmap_data.cell = <<>>

SeasonMonths ==
    [Winter |-> {12, 1, 2}, Spring |-> {3, 4, 5}, Summer |-> {6, 7, 8}, Autumn |-> {9, 10, 11}]

\* C6: every month 1..12 maps to the one season whose bucket holds it, the
\* four buckets of three months partition the twelve months, and every row of
\* the loaded table carries the season of its own month.
C6_SeasonMapping ==
    /\ \A m \in 1..12 : \A s \in DOMAIN SeasonMonths : get_season(m) = s <=> m \in SeasonMonths[s]
    /\ \A s \in DOMAIN SeasonMonths : Cardinality({m \in 1..12 : get_season(m) = s}) = 3
    /\ \A i \in DOMAIN Loaded.rows :
          /\ Loaded.rows[i]["season"] \in DOMAIN SeasonMonths
          /\ dt_month(Loaded.rows[i]["time"]) \in SeasonMonths[Loaded.rows[i]["season"]]

\* a loaded table with rows of all four seasons, December among them
C6_Witness ==
    /\ pc = "filter"
    /\ {Loaded.rows[i]["season"] : i \in DOMAIN Loaded.rows} = DOMAIN SeasonMonths
    /\ \E i \in DOMAIN Loaded.rows : dt_month(Loaded.rows[i]["time"]) = 12

\* one entry per month of the filtered rows, in strictly ascending month order
OnePerMonthAscending(series) ==
    /\ Range(series.index) = FilteredMonths
    /\ DOMAIN series.values = DOMAIN series.index
    /\ \A j, k \in DOMAIN series.index : j < k => series.index[j] < series.index[k]

\* C7: the monthly average and the monthly rainfall total each hold exactly
\* one entry per distinct month of the filtered rows, in strictly ascending
\* month order, whichever metric is selected.
C7_MonthlyAggregates ==
    /\ Past("monthly_avg") => OnePerMonthAscending(monthly_avg)
    /\ Past("rainfall") => OnePerMonthAscending(monthly_rainfall)

\* both aggregates computed for the rainfall metric over rows whose months
\* come in descending order in the file
C7_Witness ==
    /\ Past("rainfall")
    /\ selected_metric = RAIN
    /\ Len(monthly_avg.index) >= 2
    /\ \E i \in DOMAIN Filtered.rows :
          i > 1 /\ Filtered.rows[i]["month"] < Filtered.rows[i - 1]["month"]

\* C8: through every run, whatever the selection, the full table is as
\* load_data returned it: the same rows, columns and values.
C8_OriginalNeverMutated == cache = load_data(csv) /\ Loaded = cache

\* a finished run under a one-bound selection: the view is a copy of the full
\* table and carries the run's columns, the full table does not
C8_Witness ==
    /\ pc = "done"
    /\ Len(date_range) = 1
    /\ {"MonthType", "hour", "month_name"} \subseteq Filtered.columns
    /\ {"MonthType", "hour", "month_name"} \cap Loaded.columns = {}
    /\ \E i \in DOMAIN Filtered.rows : Filtered.rows[i]["day_of_week"] = "Monday"

\* C9: when an optional column is absent from the loaded table (absent from
\* the file, or empty and dropped), the load succeeds and no step of the run
\* ends in an exception.
C9_MissingColumnsTolerated ==
    (OptionalColumns \ Loaded.columns # {}) =>
        /\ {"time", "month", "year", "day_of_week", "date", "season"} \subseteq Loaded.columns
        /\ pc # "error"

\* C10: in a non-empty filtered set every row is labelled Wet or Dry and at
\* least one month is Dry.
C10_NeverAllWet ==
    (Past("wetdry") /\ Len(Filtered.rows) > 0) =>
        /\ \A i \in DOMAIN Filtered.rows : Filtered.rows[i]["MonthType"] \in {"Wet", "Dry"}
        /\ \E i \in DOMAIN Filtered.rows : Filtered.rows[i]["MonthType"] = "Dry"

====
